---- MODULE Spec2Model ----
(***************************************************************************)
(* A model of the mock blockchain of src/blockchain.py: class Block, class *)
(* BlockChain, its mutating methods and its static methods.                *)
(*                                                                         *)
(* Python values are tagged records [t |-> type name, v |-> payload], so   *)
(* that an int, a str, a float, None and a list stay distinguishable.      *)
(* A list is a reference into `heap`: two names bound to one list object   *)
(* hold the same reference and see each other's appends.                   *)
(***************************************************************************)
EXTENDS Integers, Sequences, FiniteSets, TLC

VARIABLES chain, current_data, nodes, heap, now, inp, out, tampered,
          history, threads, overlapped

vars == <<chain, current_data, nodes, heap, now, inp, out, tampered,
          history, threads, overlapped>>

(***************************************************************************)
(* Bounds of the model.                                                    *)
(***************************************************************************)
MaxChain == 3
MaxPending == 2
MaxTime == 3
MaxProofInput == 40

(***************************************************************************)
(* Python values.                                                          *)
(***************************************************************************)
PyInt(n) == [t |-> "int", v |-> n]
PyFloat(n) == [t |-> "float", v |-> n]
PyStr(s) == [t |-> "str", v |-> s]
PyList(ref) == [t |-> "list", v |-> ref]
PyNone == [t |-> "NoneType", v |-> 0]

\* bool(x): None, 0, 0.0 and "" are falsy; a list is falsy when it is empty.
Truthy(x, h) ==
    CASE x.t = "NoneType" -> FALSE
      [] x.t = "int" -> x.v # 0
      [] x.t = "float" -> x.v # 0
      [] x.t = "str" -> x.v # ""
      [] x.t = "list" -> h[x.v] # <<>>

(***************************************************************************)
(* Text formatting: str() and repr() as "{}".format and f-strings use them.*)
(***************************************************************************)
Digit == <<"0", "1", "2", "3", "4", "5", "6", "7", "8", "9">>

RECURSIVE str_nat(_)
str_nat(n) == IF n < 10 THEN Digit[n + 1]
              ELSE str_nat(n \div 10) \o Digit[(n % 10) + 1]

str_int(n) == IF n < 0 THEN "-" \o str_nat(0 - n) ELSE str_nat(n)

\* repr of a whole-number float: 3.0
str_float(n) == str_int(n) \o ".0"

repr_str(s) == "'" \o s \o "'"

\* repr of the dict built by new_data (insertion order of its keys)
repr_dict(d) == "{'sender': " \o repr_str(d.sender)
                \o ", 'recipient': " \o repr_str(d.recipient)
                \o ", 'quantity': " \o str_int(d.quantity) \o "}"

RECURSIVE join_reprs(_)
join_reprs(s) == IF s = <<>> THEN ""
                 ELSE IF Len(s) = 1 THEN repr_dict(s[1])
                 ELSE repr_dict(s[1]) \o ", " \o join_reprs(Tail(s))

repr_list(s) == "[" \o join_reprs(s) \o "]"

\* "{}".format(x)
Format(x, h) ==
    CASE x.t = "int" -> str_int(x.v)
      [] x.t = "float" -> str_float(x.v)
      [] x.t = "str" -> x.v
      [] x.t = "NoneType" -> "None"
      [] x.t = "list" -> repr_list(h[x.v])

(***************************************************************************)
(* hashlib.sha256(text).hexdigest().  The digest is symbolic: one digest   *)
(* per text (SHA-256 taken as collision free).  Which digests begin with   *)
(* "0000" is tabulated from SHA-256 itself: ZeroHashTexts holds every text *)
(* of at most 6 decimal digits, and every text "None"+n or n+"None" with   *)
(* n < 100000, whose SHA-256 hex digest starts with four zeroes (that of  *)
(* "NoneNone" does not).  Every text the model feeds to verifying_proof    *)
(* lies in that range.                                                     *)
(***************************************************************************)
sha256_hexdigest(text) == "sha256(" \o text \o ")"

ZeroHashTexts ==
    {"88484", "069732", "172608", "269926", "272275", "284088", "309162",
     "331733", "397904", "520287", "560602", "596138", "630884", "637519",
     "665782", "680592", "693498", "754822", "795185", "865126", "889140",
     "929543", "937111", "967500",
     "None44161", "None95053", "9423None", "16441None"}

StartsWith0000(digest) ==
    digest \in {sha256_hexdigest(text) : text \in ZeroHashTexts}

(***************************************************************************)
(* class Block                                                             *)
(***************************************************************************)
\* Block.__init__; clock is the reading time.time() would give.
Block(index, proof_no, prev_hash, data, timestamp, clock, h) ==
    [index |-> index,
     proof_no |-> proof_no,
     prev_hash |-> prev_hash,
     data |-> data,
     timestamp |-> IF Truthy(timestamp, h) THEN timestamp ELSE PyFloat(clock)]

\* calculate_hash leaving the data out of the hashed text
calculate_hash_without_data(b, h) ==
    LET block_of_string == Format(b.index, h) \o Format(b.proof_no, h)
                           \o Format(b.prev_hash, h)
                           \o Format(b.timestamp, h)
    IN PyStr(sha256_hexdigest(block_of_string))

\* Block.calculate_hash, a property recomputed from the fields on each access
calculate_hash(b, h) ==
    LET block_of_string == Format(b.index, h) \o Format(b.proof_no, h)
                           \o Format(b.prev_hash, h) \o Format(b.data, h)
                           \o Format(b.timestamp, h)
    IN PyStr(sha256_hexdigest(block_of_string))

(***************************************************************************)
(* class BlockChain.  A ledger value is the four pieces of state an        *)
(* instance reaches: its chain, the list current_data is bound to, its     *)
(* nodes, and the list objects of the heap.  A method is an operator from  *)
(* a ledger value to [self |-> the ledger afterwards, ret |-> its result]. *)
(***************************************************************************)
Reward(details_miner) ==
    [sender |-> "0", recipient |-> details_miner, quantity |-> 1]

\* construct_block numbering the blocks from 1
construct_block_index_from_one(self, proof_no, prev_hash, clock) ==
    LET block == Block(PyInt(Len(self.chain) + 1), proof_no, prev_hash,
                       PyList(self.current_data), PyNone, clock, self.heap)
        heap1 == Append(self.heap, <<>>)
    IN [self |-> [self EXCEPT !.heap = heap1,
                              !.current_data = Len(heap1),
                              !.chain = Append(self.chain, block)],
        ret |-> block]

\* construct_block leaving current_data bound to the list the block took
construct_block_shared_list(self, proof_no, prev_hash, clock) ==
    LET block == Block(PyInt(Len(self.chain)), proof_no, prev_hash,
                       PyList(self.current_data), PyNone, clock, self.heap)
    IN [self |-> [self EXCEPT !.chain = Append(self.chain, block)],
        ret |-> block]

\* construct_block giving the block a new empty list
construct_block_new_list(self, proof_no, prev_hash, clock) ==
    LET heap1 == Append(Append(self.heap, <<>>), <<>>)
        block == Block(PyInt(Len(self.chain)), proof_no, prev_hash,
                       PyList(Len(heap1) - 1), PyNone, clock, heap1)
    IN [self |-> [self EXCEPT !.heap = heap1,
                              !.current_data = Len(heap1),
                              !.chain = Append(self.chain, block)],
        ret |-> block]

\* BlockChain.construct_block: the block takes the list current_data is
\* bound to, and current_data is then bound to a new empty list.
construct_block(self, proof_no, prev_hash, clock) ==
    LET block == Block(PyInt(Len(self.chain)), proof_no, prev_hash,
                       PyList(self.current_data), PyNone, clock, self.heap)
        heap1 == Append(self.heap, <<>>)
    IN [self |-> [self EXCEPT !.heap = heap1,
                              !.current_data = Len(heap1),
                              !.chain = Append(self.chain, block)],
        ret |-> block]

\* construct_genesis starting from proof number 1
construct_genesis_proof_one(self, clock) ==
    [self |-> construct_block(self, PyInt(1), PyInt(0), clock).self,
     ret |-> PyNone]

\* BlockChain.construct_genesis
construct_genesis(self, clock) ==
    [self |-> construct_block(self, PyInt(0), PyInt(0), clock).self,
     ret |-> PyNone]

\* BlockChain.__init__
BlockChain(clock) ==
    LET self == [chain |-> <<>>,
                 current_data |-> 1,
                 nodes |-> {},
                 heap |-> << <<>> >>]
    IN construct_genesis(self, clock).self

\* new_data putting the record at the front of the list
new_data_at_front(self, sender, recipient, quantity) ==
    [self |-> [self EXCEPT !.heap[self.current_data] =
                   <<[sender |-> sender,
                      recipient |-> recipient,
                      quantity |-> quantity]>> \o @],
     ret |-> TRUE]

\* new_data skipping a record that is already in the list
new_data_no_duplicates(self, sender, recipient, quantity) ==
    LET record == [sender |-> sender,
                   recipient |-> recipient,
                   quantity |-> quantity]
        present == \E i \in 1..Len(self.heap[self.current_data]) :
                       self.heap[self.current_data][i] = record
    IN [self |-> IF present THEN self
                 ELSE [self EXCEPT !.heap[self.current_data] =
                           Append(@, record)],
        ret |-> TRUE]

\* BlockChain.new_data
new_data(self, sender, recipient, quantity) ==
    [self |-> [self EXCEPT !.heap[self.current_data] =
                   Append(@, [sender |-> sender,
                              recipient |-> recipient,
                              quantity |-> quantity])],
     ret |-> TRUE]

\* BlockChain.verifying_proof(last_proof, proof)
verifying_proof(last_proof, proof) ==
    LET guess == Format(last_proof, <<>>) \o Format(proof, <<>>)
        guess_hash == sha256_hexdigest(guess)
    IN StartsWith0000(guess_hash)

\* check_validity handing the two proofs to verifying_proof the other way
\* round
check_validity_swapped_proofs(block, prev_block, h) ==
    IF prev_block.index.v + 1 # block.index.v
    THEN FALSE
    ELSE IF calculate_hash(prev_block, h) # block.prev_hash
    THEN FALSE
    ELSE IF ~verifying_proof(prev_block.proof_no, block.proof_no)
    THEN FALSE
    ELSE IF block.timestamp.v <= prev_block.timestamp.v
    THEN FALSE
    ELSE TRUE

\* check_validity accepting an equal timestamp
check_validity_equal_time(block, prev_block, h) ==
    IF prev_block.index.v + 1 # block.index.v
    THEN FALSE
    ELSE IF calculate_hash(prev_block, h) # block.prev_hash
    THEN FALSE
    ELSE IF ~verifying_proof(block.proof_no, prev_block.proof_no)
    THEN FALSE
    ELSE IF block.timestamp.v < prev_block.timestamp.v
    THEN FALSE
    ELSE TRUE

\* BlockChain.check_validity
check_validity(block, prev_block, h) ==
    IF prev_block.index.v + 1 # block.index.v
    THEN FALSE
    ELSE IF calculate_hash(prev_block, h) # block.prev_hash
    THEN FALSE
    ELSE IF ~verifying_proof(block.proof_no, prev_block.proof_no)
    THEN FALSE
    ELSE IF block.timestamp.v <= prev_block.timestamp.v
    THEN FALSE
    ELSE TRUE

\* BlockChain.proof_of_work: the return sits inside the loop body, so the
\* loop body runs at most once; when the loop condition is false at entry
\* the function falls off its end and returns None.
proof_of_work(last_proof) ==
    LET proof_no == 0
    IN IF verifying_proof(PyInt(proof_no), last_proof) = FALSE
       THEN PyInt(proof_no + 1)
       ELSE PyNone

\* latest_block returning the first block of the chain
latest_block_first(self) ==
    IF self.chain = <<>>
    THEN [kind |-> "raise", exc |-> "IndexError"]
    ELSE [kind |-> "return", val |-> self.chain[1]]

(***************************************************************************)
(* proof_of_work statement by statement.  A frame holds the locals of one  *)
(* call, the number of times the loop condition has been evaluated, the    *)
(* candidate it was last evaluated for and whether verifying_proof held.   *)
(***************************************************************************)
\* proof_no = 0
pow_enter(last_proof) ==
    [pc |-> "while", last_proof |-> last_proof, proof_no |-> 0,
     evals |-> 0, tested |-> 0, held |-> FALSE, ret |-> PyNone]

\* while BlockChain.verifying_proof(proof_no, last_proof) is False:
\* when the condition fails the function ends without a return statement
pow_while(f) ==
    LET holds == verifying_proof(PyInt(f.proof_no), f.last_proof)
    IN [f EXCEPT !.evals = @ + 1,
                 !.tested = f.proof_no,
                 !.held = holds,
                 !.pc = IF holds = FALSE THEN "body" ELSE "done",
                 !.ret = PyNone]

\* the loop body returning the candidate before it is incremented
pow_body_return_first(f) ==
    [f EXCEPT !.proof_no = @ + 1,
              !.ret = PyInt(f.proof_no),
              !.pc = "done"]

\* proof_no += 1; return proof_no
pow_body(f) ==
    [f EXCEPT !.proof_no = @ + 1,
              !.ret = PyInt(f.proof_no + 1),
              !.pc = "done"]

\* BlockChain.latest_block: chain[-1], which raises IndexError on an empty
\* list
latest_block(self) ==
    IF self.chain = <<>>
    THEN [kind |-> "raise", exc |-> "IndexError"]
    ELSE [kind |-> "return", val |-> self.chain[Len(self.chain)]]

\* vars(block): the mapping of a block's five fields
vars_of(b) ==
    [k \in {"index", "proof_no", "prev_hash", "data", "timestamp"} |-> b[k]]

\* block_mining reading the first block of the chain as the last one
block_mining_from_first(self, details_miner, clock) ==
    LET staged == new_data(self, "0", details_miner, 1).self
        latest == latest_block(staged)
    IN IF latest.kind = "raise"
       THEN [self |-> staged, ret |-> latest]
       ELSE LET last_block == staged.chain[1]
                last_proof_no == last_block.proof_no
                proof_no == proof_of_work(last_proof_no)
                last_hash == calculate_hash(last_block, staged.heap)
                built == construct_block(staged, proof_no, last_hash, clock)
            IN [self |-> built.self,
                ret |-> [kind |-> "return", val |-> vars_of(built.ret)]]

\* BlockChain.block_mining; it returns vars(block), and an exception of
\* latest_block leaves it after the reward has been staged
block_mining(self, details_miner, clock) ==
    LET staged == new_data(self, "0", details_miner, 1).self
        latest == latest_block(staged)
    IN IF latest.kind = "raise"
       THEN [self |-> staged, ret |-> latest]
       ELSE LET last_block == latest.val
                last_proof_no == last_block.proof_no
                proof_no == proof_of_work(last_proof_no)
                last_hash == calculate_hash(last_block, staged.heap)
                built == construct_block(staged, proof_no, last_hash, clock)
            IN [self |-> built.self,
                ret |-> [kind |-> "return", val |-> vars_of(built.ret)]]

\* create_node assigning a new set instead of adding to the set
create_node_replace(self, address) ==
    [self |-> [self EXCEPT !.nodes = {address}],
     ret |-> TRUE]

\* BlockChain.create_node
create_node(self, address) ==
    [self |-> [self EXCEPT !.nodes = @ \cup {address}],
     ret |-> TRUE]

\* BlockChain.obtain_block_object: the subscripts are evaluated in argument
\* order, so the first absent key raises KeyError.
FieldNames == <<"index", "proof_no", "prev_hash", "data", "timestamp">>

Missing(block_data) ==
    {i \in 1..Len(FieldNames) : FieldNames[i] \notin DOMAIN block_data}

FirstMissing(block_data) ==
    FieldNames[CHOOSE i \in Missing(block_data) :
                   \A j \in Missing(block_data) : i <= j]

\* obtain_block_object reading the mapping with dict.get
obtain_block_object_get(block_data, clock, h) ==
    LET get(k) == IF k \in DOMAIN block_data THEN block_data[k] ELSE PyNone
    IN [kind |-> "Block",
        block |-> Block(get("index"), get("proof_no"), get("prev_hash"),
                        get("data"), get("timestamp"), clock, h)]

obtain_block_object(block_data, clock, h) ==
    IF Missing(block_data) # {}
    THEN [kind |-> "raise", exc |-> "KeyError",
          key |-> FirstMissing(block_data)]
    ELSE [kind |-> "Block",
          block |-> Block(block_data["index"], block_data["proof_no"],
                          block_data["prev_hash"], block_data["data"],
                          block_data["timestamp"], clock, h)]

(***************************************************************************)
(* The ledger as a state machine: one BlockChain instance, its callers and *)
(* the clock time.time() reads.                                            *)
(***************************************************************************)
Transfers == {<<"A", "B", 5>>, <<"B", "A", -2>>}
Miners == {"alice"}
Addresses == {"n1", "n2"}

\* callers that run block_mining concurrently, each under its own name
Callers == {"carol", "dave"}

NoThreads == [c \in Callers |-> [pc |-> "idle"]]

Self == [chain |-> chain, current_data |-> current_data,
         nodes |-> nodes, heap |-> heap]

Install(self) ==
    /\ chain' = self.chain
    /\ current_data' = self.current_data
    /\ nodes' = self.nodes
    /\ heap' = self.heap

NoCall == [op |-> "none", val |-> PyNone]

\* the list current_data is bound to
pending == heap[current_data]

\* the contents of block b's data list
DataOf(b, h) == h[b.data.v]

Init ==
    /\ now = 1
    /\ LET self == BlockChain(now)
       IN /\ chain = self.chain
          /\ current_data = self.current_data
          /\ nodes = self.nodes
          /\ heap = self.heap
    /\ inp = NoCall
    /\ out = NoCall
    /\ tampered = FALSE
    /\ history = <<>>
    /\ threads = NoThreads
    /\ overlapped = FALSE

NewData(sender, recipient, quantity) ==
    /\ Len(pending) < MaxPending
    /\ LET r == new_data(Self, sender, recipient, quantity)
       IN /\ Install(r.self)
          /\ out' = [op |-> "new_data", val |-> r.ret]
    /\ history' = Append(history, [sender |-> sender,
                                   recipient |-> recipient,
                                   quantity |-> quantity])
    /\ UNCHANGED <<now, inp, tampered, threads, overlapped>>

BlockMining(details_miner) ==
    /\ Len(chain) < MaxChain
    /\ Len(pending) <= MaxPending
    /\ LET r == block_mining(Self, details_miner, now)
       IN /\ Install(r.self)
          /\ out' = [op |-> "block_mining", val |-> r.ret]
    /\ history' = Append(history, Reward(details_miner))
    /\ UNCHANGED <<now, inp, tampered, threads, overlapped>>

CreateNode(address) ==
    /\ LET r == create_node(Self, address)
       IN /\ Install(r.self)
          /\ out' = [op |-> "create_node", val |-> r.ret]
    /\ UNCHANGED <<now, inp, tampered, history, threads, overlapped>>

LatestBlock ==
    /\ out' = [op |-> "latest_block", val |-> latest_block(Self)]
    /\ UNCHANGED <<chain, current_data, nodes, heap, now, inp, tampered,
                   history, threads, overlapped>>

\* the clock advances; it never goes backwards, and two readings taken
\* without a Tick in between are equal
Tick ==
    /\ now < MaxTime
    /\ now' = now + 1
    /\ UNCHANGED <<chain, current_data, nodes, heap, inp, out, tampered,
                   history, threads, overlapped>>

Next ==
    \/ \E a \in Transfers : NewData(a[1], a[2], a[3])
    \/ \E m \in Miners : BlockMining(m)
    \/ \E n \in Addresses : CreateNode(n)
    \/ LatestBlock
    \/ Tick

Spec == Init /\ [][Next]_vars

(***************************************************************************)
(* Properties of the ledger under Spec.                                    *)
(***************************************************************************)

\* C1: after any number of block_mining calls, with any new_data and
\* create_node calls in between, check_validity holds for every
\* consecutive pair of blocks of the chain.
C1_EveryPairValid ==
    \A i \in 2..Len(chain) : check_validity(chain[i], chain[i - 1], heap)

\* C3: block_mining appends exactly one block; its data is the records
\* pending before the call, in order, followed by the reward record of the
\* miner as the last entry; pending is empty when the call returns.
C3_MineTakesPendingThenReward ==
    [][\A m \in Miners :
          BlockMining(m) =>
              /\ Len(chain') = Len(chain) + 1
              /\ SubSeq(chain', 1, Len(chain)) = chain
              /\ DataOf(chain'[Len(chain')], heap')
                     = Append(pending, Reward(m))
              /\ pending' = <<>>]_vars

C3_Witness ==
    /\ out.op = "block_mining"
    /\ Len(DataOf(chain[Len(chain)], heap)) >= 2
    /\ pending = <<>>

\* C4: in every reachable state the chain is non-empty and every block's
\* index is its position in the chain, counted from 0.
C4_IndexIsPosition ==
    /\ Len(chain) >= 1
    /\ \A i \in 1..Len(chain) : chain[i].index = PyInt(i - 1)

C4_Witness == Len(chain) >= 3

\* C5: a ledger on which no method has been called yet holds exactly the
\* genesis block (index 0, proof_no 0, prev_hash 0, empty data), an empty
\* pending list and no nodes.
C5_FreshLedger ==
    out.op = "none" =>
        /\ Len(chain) = 1
        /\ chain[1].index = PyInt(0)
        /\ chain[1].proof_no = PyInt(0)
        /\ chain[1].prev_hash = PyInt(0)
        /\ chain[1].data.t = "list"
        /\ DataOf(chain[1], heap) = <<>>
        /\ pending = <<>>
        /\ nodes = {}

C5_Witness == out.op = "none" /\ Len(chain) = 1 /\ now > 1

\* C7: no step of new_data, block_mining or create_node changes a block
\* that is already in the chain: its five fields and the contents of its
\* data list stay as they are, and no block is removed or reordered.
C7_BlocksNeverChange ==
    [][/\ Len(chain') >= Len(chain)
       /\ \A i \in 1..Len(chain) :
             /\ chain'[i] = chain[i]
             /\ DataOf(chain'[i], heap') = DataOf(chain[i], heap)]_vars

C7_Witness ==
    /\ Len(chain) >= 2
    /\ out.op = "new_data"
    /\ pending # <<>>
    /\ Len(DataOf(chain[2], heap)) >= 2

(***************************************************************************)
(* The static methods of BlockChain as calls on drawn arguments: inp holds *)
(* the arguments, out the result once the call has been made.  The heap    *)
(* holds, besides the lists of a new ledger, one list with a record in it. *)
(***************************************************************************)
Keys == {FieldNames[i] : i \in 1..Len(FieldNames)}

OtherList == <<[sender |-> "A", recipient |-> "B", quantity |-> 5]>>

\* last_proof arguments; sha256("069732") and sha256("889140") start with
\* 0000
ProofInputs ==
    {PyInt(p) : p \in (0..MaxProofInput) \cup {69732, 88914}} \cup {PyNone}

\* sha256("88484") starts with 0000: proof 8848 after proof 4 is valid work
PrevBlocks(h) ==
    [index : {PyInt(0), PyInt(1)},
     proof_no : {PyInt(0), PyInt(4), PyNone},
     prev_hash : {PyInt(0)},
     data : {PyList(1), PyList(3)},
     timestamp : {PyFloat(n) : n \in 1..2}]

NextBlocks(prev_block, h) ==
    [index : {PyInt(1), PyInt(2)},
     proof_no : {PyInt(1), PyInt(8848), PyNone},
     prev_hash : {PyInt(0), calculate_hash(prev_block, h),
                  calculate_hash([prev_block EXCEPT !.data = PyList(2)], h),
                  calculate_hash([prev_block EXCEPT !.data = PyList(3)], h)},
     data : {PyList(2)},
     timestamp : {PyFloat(n) : n \in 1..3}]

\* mappings handed to obtain_block_object: any of the keys may be absent,
\* and a value may be of a type a block field never has
FullRecords ==
    [index : {PyInt(0), PyInt(1), PyStr("one")},
     proof_no : {PyInt(1), PyNone},
     prev_hash : {PyInt(0), PyStr("ab12")},
     data : {PyList(1), PyList(3), PyInt(7)},
     timestamp : {PyFloat(0), PyFloat(1), PyFloat(2), PyStr("noon")}]

Restrict(f, K) == [k \in K |-> f[k]]

Records == {Restrict(r, K) : r \in FullRecords, K \in SUBSET Keys}

StaticInputs(h) ==
    {[op |-> "proof_of_work", last_proof |-> p] : p \in ProofInputs}
    \cup UNION {{[op |-> "check_validity", block |-> b, prev_block |-> pb] :
                     b \in NextBlocks(pb, h)} : pb \in PrevBlocks(h)}
    \cup {[op |-> "obtain_block_object", block_data |-> r] : r \in Records}

InitStatic ==
    /\ now \in 1..MaxTime
    /\ LET self == BlockChain(now)
       IN /\ chain = self.chain
          /\ current_data = self.current_data
          /\ nodes = self.nodes
          /\ heap = Append(self.heap, OtherList)
    /\ inp \in StaticInputs(heap)
    /\ out = NoCall
    /\ tampered = FALSE
    /\ history = <<>>
    /\ threads = NoThreads
    /\ overlapped = FALSE

ProofOfWorkCall ==
    /\ inp.op = "proof_of_work"
    /\ out.op = "none"
    /\ out' = [op |-> "proof_of_work", val |-> proof_of_work(inp.last_proof)]
    /\ UNCHANGED <<chain, current_data, nodes, heap, now, inp, tampered,
                   history, threads, overlapped>>

CheckValidityCall ==
    /\ inp.op = "check_validity"
    /\ out.op = "none"
    /\ out' = [op |-> "check_validity",
               val |-> check_validity(inp.block, inp.prev_block, heap)]
    /\ UNCHANGED <<chain, current_data, nodes, heap, now, inp, tampered,
                   history, threads, overlapped>>

ObtainBlockObjectCall ==
    /\ inp.op = "obtain_block_object"
    /\ out.op = "none"
    /\ out' = [op |-> "obtain_block_object",
               val |-> obtain_block_object(inp.block_data, now, heap)]
    /\ UNCHANGED <<chain, current_data, nodes, heap, now, inp, tampered,
                   history, threads, overlapped>>

NextStatic ==
    \/ ProofOfWorkCall
    \/ CheckValidityCall
    \/ ObtainBlockObjectCall

SpecStatic == InitStatic /\ [][NextStatic]_vars

(***************************************************************************)
(* Properties of the static methods under SpecStatic.                      *)
(***************************************************************************)

\* C2: proof_of_work(last_proof) returns the smallest non-negative integer
\* candidate for which verifying_proof(candidate, last_proof) holds.
C2_SmallestCandidate ==
    out.op = "proof_of_work" =>
        /\ out.val.t = "int"
        /\ out.val.v >= 0
        /\ verifying_proof(out.val, inp.last_proof)
        /\ \A c \in 0..(out.val.v - 1) :
              ~verifying_proof(PyInt(c), inp.last_proof)

\* C6: check_validity(block, prev_block) returns a boolean, and it returns
\* True exactly when the index follows, the previous block's hash is the
\* block's prev_hash, the proof verifies against the previous proof, and
\* the timestamp is strictly later.
C6_TrueIffFourChecks ==
    out.op = "check_validity" =>
        /\ out.val \in BOOLEAN
        /\ out.val =
              (/\ inp.block.index.v = inp.prev_block.index.v + 1
               /\ calculate_hash(inp.prev_block, heap) = inp.block.prev_hash
               /\ verifying_proof(inp.block.proof_no,
                                  inp.prev_block.proof_no)
               /\ inp.block.timestamp.v > inp.prev_block.timestamp.v)

C6_Witness == out.op = "check_validity" /\ out.val = TRUE

\* a mapping that is vars(b) of a block b: all five keys, each value of a
\* type the field has
IsBlockRecord(r) ==
    /\ DOMAIN r = Keys
    /\ r["index"].t = "int"
    /\ r["proof_no"].t \in {"int", "NoneType"}
    /\ r["prev_hash"].t \in {"int", "str"}
    /\ r["data"].t = "list"
    /\ r["timestamp"].t = "float"

WrongType(r) ==
    \/ "index" \in DOMAIN r /\ r["index"].t # "int"
    \/ "data" \in DOMAIN r /\ r["data"].t # "list"
    \/ "timestamp" \in DOMAIN r /\ r["timestamp"].t \notin {"float", "int"}

Forged == [sender |-> "0", recipient |-> "mallory", quantity |-> 100]

\* the first check_validity test that is about the hash: line 139 negated
HashLinked(block, prev_block, h) ==
    ~(calculate_hash(prev_block, h) # block.prev_hash)

TamperData(i, txs) ==
    /\ ~tampered
    /\ txs # DataOf(chain[i], heap)
    /\ heap' = [heap EXCEPT ![chain[i].data.v] = txs]
    /\ tampered' = TRUE
    /\ UNCHANGED <<chain, current_data, nodes, now, inp, out,
                   history, threads, overlapped>>

NextTamper ==
    \/ ~tampered /\ Next
    \/ \E i \in 1..Len(chain) :
          \E txs \in {<<>>, Append(DataOf(chain[i], heap), Forged)} :
              TamperData(i, txs)

SpecTamper == Init /\ [][NextTamper]_vars

\* C8: in a chain built by mining at least twice, changing the data of
\* block 1 makes the hash test of check_validity fail for the pair of
\* blocks 1 and 2, which it passed before the change, and leaves the hash
\* test of the pair of blocks 0 and 1 passing.
C8_TamperBreaksNextLink ==
    [][(/\ tampered' /\ ~tampered
        /\ Len(chain) >= 3
        /\ DataOf(chain[2], heap') # DataOf(chain[2], heap)) =>
           /\ HashLinked(chain[3], chain[2], heap)
           /\ ~HashLinked(chain[3], chain[2], heap)'
           /\ HashLinked(chain[2], chain[1], heap)
           /\ HashLinked(chain[2], chain[1], heap)']_vars

C8_Witness ==
    /\ tampered
    /\ Len(chain) >= 3
    /\ ~HashLinked(chain[3], chain[2], heap)
    /\ HashLinked(chain[2], chain[1], heap)

(***************************************************************************)
(* An emptied chain: chain is a plain attribute, and nothing keeps a       *)
(* holder of the ledger from deleting its blocks.  SpecEmptied lets that   *)
(* happen and lets the methods run on afterwards.                          *)
(***************************************************************************)
\* del ledger.chain[:]
ClearChain ==
    /\ chain # <<>>
    /\ chain' = <<>>
    /\ tampered' = TRUE
    /\ UNCHANGED <<current_data, nodes, heap, now, inp, out,
                   history, threads, overlapped>>

NextEmptied ==
    \/ Next
    \/ ClearChain

SpecEmptied == Init /\ [][NextEmptied]_vars

C13_CreateNodeIdempotent ==
    [][\A n \in Addresses :
          (out'.op = "create_node" /\ CreateNode(n)) =>
              /\ nodes' = nodes \cup {n}
              /\ n \in nodes => nodes' = nodes
              /\ create_node(create_node(Self, n).self, n).self
                     = create_node(Self, n).self
              /\ out'.val = TRUE
              /\ chain' = chain
              /\ heap' = heap
              /\ current_data' = current_data]_vars

C13_Witness ==
    /\ out.op = "create_node"
    /\ nodes = Addresses
    /\ pending # <<>>
    /\ Len(chain) >= 2

(***************************************************************************)
(* One call of proof_of_work run statement by statement on a drawn         *)
(* last_proof; out.val is the frame of the call.                           *)
(***************************************************************************)
InitPow ==
    /\ now = 1
    /\ LET self == BlockChain(now)
       IN /\ chain = self.chain
          /\ current_data = self.current_data
          /\ nodes = self.nodes
          /\ heap = self.heap
    /\ \E p \in ProofInputs :
          /\ inp = [op |-> "proof_of_work", last_proof |-> p]
          /\ out = [op |-> "proof_of_work", val |-> pow_enter(p)]
    /\ tampered = FALSE
    /\ history = <<>>
    /\ threads = NoThreads
    /\ overlapped = FALSE

PowWhile ==
    /\ out.val.pc = "while"
    /\ out' = [out EXCEPT !.val = pow_while(out.val)]
    /\ UNCHANGED <<chain, current_data, nodes, heap, now, inp, tampered,
                   history, threads, overlapped>>

PowBody ==
    /\ out.val.pc = "body"
    /\ out' = [out EXCEPT !.val = pow_body(out.val)]
    /\ UNCHANGED <<chain, current_data, nodes, heap, now, inp, tampered,
                   history, threads, overlapped>>

NextPow ==
    \/ PowWhile
    \/ PowBody

SpecPow == InitPow /\ [][NextPow]_vars

\* C14 as stated: for every last_proof, proof_of_work ends after a single
\* evaluation of the predicate, for candidate 0, and returns 0.
C14_OneProbeReturnsZero ==
    out.val.pc = "done" =>
        /\ out.val.evals = 1
        /\ out.val.tested = 0
        /\ out.val.ret = PyInt(0)

\* C14 amended: for every last_proof, proof_of_work ends after a single
\* evaluation of the predicate, for candidate 0; it returns 1 when the
\* predicate failed for candidate 0 and None when it held.
C14_OneProbeReturnsOneOrNone ==
    out.val.pc = "done" =>
        /\ out.val.evals = 1
        /\ out.val.tested = 0
        /\ out.val.ret = IF verifying_proof(PyInt(0), inp.last_proof)
                         THEN PyNone
                         ELSE PyInt(1)
        /\ out.val.ret = proof_of_work(inp.last_proof)

C14_Witness ==
    /\ out.val.pc = "done"
    /\ out.val.evals = 1
    /\ out.val.ret = PyNone
    /\ inp.last_proof = PyInt(69732)

\* a block with proof_no c that follows a block with proof_no p and passes
\* the index, hash and timestamp tests of check_validity
PrevWithProof(p, h) ==
    Block(PyInt(0), p, PyInt(0), PyList(1), PyFloat(1), 1, h)

NextWithProof(c, p, h) ==
    Block(PyInt(1), c, calculate_hash(PrevWithProof(p, h), h), PyList(2),
          PyFloat(2), 2, h)

C15_MinedProofVerifies ==
    \A i \in 2..Len(chain) :
        /\ chain[i].proof_no.t = "int"
        /\ verifying_proof(chain[i].proof_no, chain[i - 1].proof_no)

\* C16: in every reachable state the genesis block's prev_hash is 0 and
\* every later block's prev_hash is the hash of the block before it,
\* recomputed in that state.
C16_HashChain ==
    /\ chain[1].prev_hash = PyInt(0)
    /\ \A i \in 2..Len(chain) :
          chain[i].prev_hash = calculate_hash(chain[i - 1], heap)

C16_Witness ==
    /\ Len(chain) >= 3
    /\ chain[3].prev_hash = calculate_hash(chain[2], heap)
    /\ chain[3].prev_hash # calculate_hash(chain[1], heap)

\* the data of the blocks of c, one after the other
RECURSIVE AllData(_, _)
AllData(c, h) ==
    IF c = <<>> THEN <<>> ELSE DataOf(c[1], h) \o AllData(Tail(c), h)

\* C17: in every state between calls, the data of the blocks in chain
\* order followed by pending is the sequence of all records staged so far,
\* by new_data and as rewards by block_mining, in the order of staging.
C17_StagedRecordsConserved ==
    AllData(chain, heap) \o pending = history

C17_Witness ==
    /\ Len(chain) >= 3
    /\ pending # <<>>
    /\ Len(DataOf(chain[2], heap)) >= 2
    /\ Len(history) >= 5

\* C18: the timestamps of the blocks strictly increase along the chain,
\* for a clock that never goes backwards but may give the same reading
\* twice.
C18_TimestampsIncrease ==
    \A i \in 2..Len(chain) :
        chain[i].timestamp.v > chain[i - 1].timestamp.v

(***************************************************************************)
(* block_mining called by several threads on one ledger.  The code takes   *)
(* no lock, so a call is a sequence of steps, one for each read or write   *)
(* of the ledger, and the steps of two calls interleave.  threads[c] holds *)
(* the locals of caller c; overlapped records that a call was entered      *)
(* while another one was in progress.                                      *)
(***************************************************************************)
Frame(pc, cur, last_block, last_hash, proof_no, index, block) ==
    [pc |-> pc, cur |-> cur, last_block |-> last_block,
     last_hash |-> last_hash, proof_no |-> proof_no, index |-> index,
     block |-> block]

\* new_data, line 122: self.current_data is read
mine_load(self, f) == [f EXCEPT !.pc = "append", !.cur = self.current_data]

\* new_data, line 122: the reward is appended to the list that was read
mine_append(self, f, details_miner) ==
    [self EXCEPT !.heap[f.cur] = Append(@, Reward(details_miner))]

\* lines 186-188: self.chain[-1], its proof_no and the proof search
mine_latest(self, f) ==
    LET last_block == latest_block(self).val
    IN [f EXCEPT !.pc = "hash",
                 !.last_block = last_block,
                 !.proof_no = proof_of_work(last_block.proof_no)]

\* line 189: last_block.calculate_hash
mine_hash(self, f) ==
    [f EXCEPT !.pc = "index",
              !.last_hash = calculate_hash(f.last_block, self.heap)]

\* line 95: len(self.chain)
mine_index(self, f) == [f EXCEPT !.pc = "data", !.index = Len(self.chain)]

\* lines 94-99: self.current_data is read and the Block is built
mine_block(self, f, clock) ==
    [f EXCEPT !.pc = "reset",
              !.block = Block(PyInt(f.index), f.proof_no, f.last_hash,
                              PyList(self.current_data), PyNone, clock,
                              self.heap)]

\* the reset of current_data left out
mine_reset_omitted(self) == self

\* line 106: self.current_data = []
mine_reset(self) ==
    [self EXCEPT !.heap = Append(@, <<>>),
                 !.current_data = Len(self.heap) + 1]

\* line 107: self.chain.append(block)
mine_chain(self, f) == [self EXCEPT !.chain = Append(@, f.block)]

Active == {c \in Callers : threads[c].pc # "idle"}

MineCall(c) ==
    /\ threads[c].pc = "idle"
    /\ Len(chain) + Cardinality(Active) < MaxChain
    /\ threads' = [threads EXCEPT ![c] =
           Frame("load", 0, PyNone, PyNone, PyNone, 0, PyNone)]
    /\ overlapped' = (overlapped \/ Active # {})
    /\ UNCHANGED <<chain, current_data, nodes, heap, now, inp, out,
                   tampered, history>>

MineLoad(c) ==
    /\ threads[c].pc = "load"
    /\ threads' = [threads EXCEPT ![c] = mine_load(Self, @)]
    /\ UNCHANGED <<chain, current_data, nodes, heap, now, inp, out,
                   tampered, history, overlapped>>

MineAppend(c) ==
    /\ threads[c].pc = "append"
    /\ Install(mine_append(Self, threads[c], c))
    /\ history' = Append(history, Reward(c))
    /\ threads' = [threads EXCEPT ![c].pc = "latest"]
    /\ UNCHANGED <<now, inp, out, tampered, overlapped>>

MineLatest(c) ==
    /\ threads[c].pc = "latest"
    /\ threads' = [threads EXCEPT ![c] = mine_latest(Self, @)]
    /\ UNCHANGED <<chain, current_data, nodes, heap, now, inp, out,
                   tampered, history, overlapped>>

MineHash(c) ==
    /\ threads[c].pc = "hash"
    /\ threads' = [threads EXCEPT ![c] = mine_hash(Self, @)]
    /\ UNCHANGED <<chain, current_data, nodes, heap, now, inp, out,
                   tampered, history, overlapped>>

MineIndex(c) ==
    /\ threads[c].pc = "index"
    /\ threads' = [threads EXCEPT ![c] = mine_index(Self, @)]
    /\ UNCHANGED <<chain, current_data, nodes, heap, now, inp, out,
                   tampered, history, overlapped>>

MineBlock(c) ==
    /\ threads[c].pc = "data"
    /\ threads' = [threads EXCEPT ![c] = mine_block(Self, @, now)]
    /\ UNCHANGED <<chain, current_data, nodes, heap, now, inp, out,
                   tampered, history, overlapped>>

MineReset(c) ==
    /\ threads[c].pc = "reset"
    /\ Install(mine_reset(Self))
    /\ threads' = [threads EXCEPT ![c].pc = "chain"]
    /\ UNCHANGED <<now, inp, out, tampered, history, overlapped>>

MineChain(c) ==
    /\ threads[c].pc = "chain"
    /\ Install(mine_chain(Self, threads[c]))
    /\ threads' = [threads EXCEPT ![c] = [pc |-> "idle"]]
    /\ UNCHANGED <<now, inp, out, tampered, history, overlapped>>

NextThreads ==
    \E c \in Callers :
        \/ MineCall(c)
        \/ MineLoad(c)
        \/ MineAppend(c)
        \/ MineLatest(c)
        \/ MineHash(c)
        \/ MineIndex(c)
        \/ MineBlock(c)
        \/ MineReset(c)
        \/ MineChain(c)

SpecThreads == Init /\ [][NextThreads]_vars

RECURSIVE Count(_, _)
Count(r, s) ==
    IF s = <<>> THEN 0
    ELSE (IF s[1] = r THEN 1 ELSE 0) + Count(r, Tail(s))

\* every staged record is in the blocks as often as it was staged, none
\* is left in pending, and every block's index is its position
RewardsAndIndexesIntact ==
    /\ \A k \in 1..Len(history) :
          Count(history[k], AllData(chain, heap)) = Count(history[k], history)
    /\ Len(AllData(chain, heap)) = Len(history)
    /\ pending = <<>>
    /\ \A i \in 1..Len(chain) : chain[i].index = PyInt(i - 1)

====
